---- MODULE Spec2Model ----
(***************************************************************************)
(* A model of pypomes_s3/minio_pomes.py: the facade over a MinIO bucket.   *)
(* The state is the bucket (virtual path -> stored object), the temporary  *)
(* folder of the local file system, and the outcome of the call that has   *)
(* just returned to (or raised into) its caller.  Every facade function is *)
(* an operator that returns an outcome record; every public operation is   *)
(* one action.  The store client (minio.Minio) is the environment: what    *)
(* each of its calls answers is drawn from the bucket's state and from the *)
(* faults the action's inputs inject.                                      *)
(***************************************************************************)
EXTENDS Integers, Sequences, FiniteSets, TLC

VARIABLES
    store,    \* the bucket: object name -> stored object, or Absent
    files,    \* the temporary folder: file name -> contents
    written,  \* history: the value the last successful _object_store put at a
              \* name, while nothing has overwritten or removed the object since
    last,     \* the call that has just returned, with what its caller sees
    buckets,  \* the store's buckets: bucket name -> whether it exists
    deletion  \* a folder deletion that runs step by step beside another process

vars == <<store, files, written, last, buckets, deletion>>

----------------------------------------------------------------------------
(* Bounds of the model *)

\* temporary files that failed operations may leave behind before the model stops
\* starting operations that create one
MaxLeaked == 1

----------------------------------------------------------------------------
(* Python values *)

PyNone == [t |-> "None"]
PyInt(n) == [t |-> "int", n |-> n]
PyDict(d) == [t |-> "dict", d |-> d]
PyBool(b) == [t |-> "bool", b |-> b]
\* a minio.datatypes.Object: the descriptor of a stored object or of a folder
MinioObject(name, isDir) == [t |-> "Object", object_name |-> name, is_dir |-> isDir]
\* a lazy listing: it yields items[1], items[2], ... and, when failAt = k > 0,
\* raises exc instead of yielding its k-th item
PyIter(items, failAt, exc) ==
    [t |-> "iter", items |-> items, failAt |-> failAt, exc |-> exc]

\* the values the callers store with _object_store
Values == {PyNone, PyInt(1)}

\* the 'identifier' argument left out
NoIdentifier == "<None>"
Identifiers == {"x"}
BasePaths == {<<"a">>, <<"a", "b">>, <<"c">>}

\* Path(basepath) / identifier, rendered as the object's name
RemotePath(basepath, identifier) == Append(basepath, identifier)

\* Path(basepath) / None raises a TypeError
PathJoinRaises(identifier) == identifier = NoIdentifier

Keys == {RemotePath(b, i) : b \in BasePaths, i \in Identifiers}

\* the order in which the store lists its keys (lexicographic)
KeyOrder == << <<"a", "b", "x">>, <<"a", "x">>, <<"c", "x">> >>

----------------------------------------------------------------------------
(* Exceptions *)

NoExc == [kind |-> "none"]
\* minio.error.S3Error carries the attribute 'code'
S3Error(code) == [kind |-> "S3Error", code |-> code]
NoSuchKey == S3Error("NoSuchKey")
AccessDenied == S3Error("AccessDenied")
\* an exception with no attribute 'code' (a transport failure)
ConnectionFailed == [kind |-> "MaxRetryError"]
TypeError == [kind |-> "TypeError"]
UnpicklingError == [kind |-> "UnpicklingError"]
InvalidEndpoint == [kind |-> "ValueError"]

\* the faults a store call can be made to raise, whatever the bucket holds
Faults == {AccessDenied, ConnectionFailed}

\* the test of the handlers: not hasattr(e, "code") or e.code != "NoSuchKey"
\* (a faulty variant: every exception is reported, not-found too)
ReportedAlways(e) == TRUE
Reported(e) == ~("code" \in DOMAIN e) \/ e.code # "NoSuchKey"

\* the message _s3_except_msg renders for an exception
ErrMsg(e) ==
    CASE e = AccessDenied -> "minio: S3Error AccessDenied"
      [] e = NoSuchKey -> "minio: S3Error NoSuchKey"
      [] e = ConnectionFailed -> "minio: MaxRetryError"
      [] e = InvalidEndpoint -> "minio: ValueError"
      [] OTHER -> "minio: error"

\* _s3_except_msg(errors, exception, engine, logger): the exception is rendered
\* as a string and appended to the error list
_s3_except_msg(errors, e) == Append(errors, ErrMsg(e))

----------------------------------------------------------------------------
(* Serialization: pickle, protocol 4 *)

\* pickle.dump(obj, f): PROTO 4, then NONE or BININT1 n, then STOP
Pickle(v) ==
    IF v.t = "None" THEN <<128, 4, 78, 46>> ELSE <<128, 4, 75, v.n, 46>>

\* pickle.load(f): the value, or an UnpicklingError for a foreign payload
\* (a faulty variant: the integer is read one byte too far)
UnpickleOffByOne(bytes) ==
    IF Len(bytes) = 4 /\ SubSeq(bytes, 1, 3) = <<128, 4, 78>> /\ bytes[4] = 46
    THEN [raised |-> NoExc, value |-> PyNone]
    ELSE IF Len(bytes) = 5 /\ SubSeq(bytes, 1, 3) = <<128, 4, 75>> /\ bytes[5] = 46
    THEN [raised |-> NoExc, value |-> PyInt(bytes[5])]
    ELSE [raised |-> UnpicklingError, value |-> PyNone]
Unpickle(bytes) ==
    IF Len(bytes) = 4 /\ SubSeq(bytes, 1, 3) = <<128, 4, 78>> /\ bytes[4] = 46
    THEN [raised |-> NoExc, value |-> PyNone]
    ELSE IF Len(bytes) = 5 /\ SubSeq(bytes, 1, 3) = <<128, 4, 75>> /\ bytes[5] = 46
    THEN [raised |-> NoExc, value |-> PyInt(bytes[4])]
    ELSE [raised |-> UnpicklingError, value |-> PyNone]

\* a local file of the caller that is no pickle ("%PDF")
RawFile == <<37, 80, 68, 70>>
LocalFiles == {RawFile}

----------------------------------------------------------------------------
(* Tags *)

\* strings are sequences of characters
Jose == <<"J", "o", "s", "e">>
JoseAcute == <<"J", "o", "s", "e_acute">>
Eszett == <<"sharp_s">>
DoubleS == <<"s", "s">>

HasDiacritics(s) == \E i \in 1..Len(s) : s[i] \in {"e_acute", "sharp_s"}

UnidecodeChar(c) ==
    CASE c = "e_acute" -> <<"e">>
      [] c = "sharp_s" -> <<"s", "s">>
      [] OTHER -> <<c>>

\* unidecode(value): every character replaced by its ASCII transliteration
RECURSIVE Unidecode(_)
\* (a faulty variant: the value is stored as it was given)
UnidecodeIdentity(s) == s
Unidecode(s) ==
    IF s = <<>> THEN <<>> ELSE UnidecodeChar(Head(s)) \o Unidecode(Tail(s))

EmptyDict == [k \in {} |-> <<>>]

\* the 'tags' argument of the two Put operations
TagInputs ==
    { PyNone,
      PyDict(EmptyDict),
      PyDict([k \in {"author", "city"} |-> IF k = "author" THEN JoseAcute ELSE Eszett]),
      PyDict([k \in {"author", "city"} |-> IF k = "author" THEN Jose ELSE DoubleS]) }

----------------------------------------------------------------------------
(* The bucket and the store client (minio.Minio) *)

Absent == [present |-> FALSE]
StoredObject(data, ctype, tags) ==
    [present |-> TRUE, data |-> data, content_type |-> ctype, tags |-> tags]

IsPrefix(p, k) == Len(p) <= Len(k) /\ SubSeq(k, 1, Len(p)) = p

\* the keys of the bucket under a prefix, in listing order
RECURSIVE KeysUnder(_, _, _)
KeysUnder(st, prefix, i) ==
    IF i > Len(KeyOrder) THEN <<>>
    ELSE (IF st[KeyOrder[i]].present /\ IsPrefix(prefix, KeyOrder[i])
          THEN <<KeyOrder[i]>> ELSE <<>>) \o KeysUnder(st, prefix, i + 1)

\* the descriptor a non-recursive listing gives for a key under the prefix: the
\* object itself when it is a direct child, else the sub-folder that holds it
ChildOf(prefix, k) ==
    IF Len(k) = Len(prefix) + 1 THEN MinioObject(k, FALSE)
    ELSE MinioObject(SubSeq(k, 1, Len(prefix) + 1), TRUE)

RECURSIVE Children(_, _)
Children(prefix, ks) ==
    IF ks = <<>> THEN <<>>
    ELSE LET rest == Children(prefix, Tail(ks))
             c == ChildOf(prefix, Head(ks))
         IN IF rest # <<>> /\ Head(rest) = c THEN rest ELSE <<c>> \o rest

\* what list_objects yields when nothing fails
ListItems(st, prefix, recursive) ==
    LET ks == KeysUnder(st, prefix, 1)
    IN IF recursive THEN [i \in 1..Len(ks) |-> MinioObject(ks[i], FALSE)]
       ELSE Children(prefix, ks)

\* a fault of a listing: none, at the call, or at the fetch of the k-th item
NoListFault == [at |-> "none", k |-> 0, exc |-> NoExc]

\* client.list_objects(bucket_name, prefix, recursive)
list_objects(st, prefix, recursive, lf) ==
    IF lf.at = "call" THEN [raised |-> lf.exc, ret |-> PyNone]
    ELSE [raised |-> NoExc,
          ret |-> PyIter(ListItems(st, prefix, recursive), lf.k, lf.exc)]

\* next(it) at position pos: an item, the end, or the fault of the listing
IterNext(it, pos) ==
    IF it.failAt = pos THEN [raised |-> it.exc, done |-> FALSE, item |-> PyNone]
    ELSE IF pos > Len(it.items) THEN [raised |-> NoExc, done |-> TRUE, item |-> PyNone]
    ELSE [raised |-> NoExc, done |-> FALSE, item |-> it.items[pos]]

\* client.fput_object(bucket_name, object_name, file_path, content_type, tags)
fput_object(st, key, data, ctype, tags, f) ==
    IF f \in Faults THEN [raised |-> f, store |-> st]
    ELSE [raised |-> NoExc,
          store |-> [st EXCEPT ![key] =
                        StoredObject(data, ctype, IF tags.t = "None" THEN EmptyDict ELSE tags.d)]]

\* client.fget_object(bucket_name, object_name, file_path)
fget_object(st, fs, key, filepath, f) ==
    IF f \in Faults THEN [raised |-> f, ret |-> PyNone, files |-> fs]
    ELSE IF ~st[key].present THEN [raised |-> NoSuchKey, ret |-> PyNone, files |-> fs]
    ELSE [raised |-> NoExc, ret |-> MinioObject(key, FALSE),
          files |-> [n \in DOMAIN fs \cup {filepath} |->
                        IF n = filepath THEN st[key].data ELSE fs[n]]]

\* client.stat_object(bucket_name, object_name)
stat_object(st, key, f) ==
    IF f \in Faults THEN [raised |-> f, ret |-> PyNone]
    ELSE IF ~st[key].present THEN [raised |-> NoSuchKey, ret |-> PyNone]
    ELSE [raised |-> NoExc, ret |-> MinioObject(key, FALSE)]

\* client.remove_object(bucket_name, object_name).  On a key that holds no object
\* the store answers with success or with NoSuchKey (f = NoSuchKey); NoSuchKey on
\* a key that was listed means that another deleter removed the object first.
remove_object(st, key, f) ==
    IF f \in Faults THEN [raised |-> f, store |-> st]
    ELSE [raised |-> f, store |-> [st EXCEPT ![key] = Absent]]

\* client.get_object_tags(bucket_name, object_name)
get_object_tags(st, key, f) ==
    IF f \in Faults THEN [raised |-> f, ret |-> PyNone]
    ELSE IF ~st[key].present THEN [raised |-> NoSuchKey, ret |-> PyNone]
    ELSE [raised |-> NoExc,
          ret |-> IF st[key].tags = EmptyDict THEN PyNone ELSE PyDict(st[key].tags)]

\* the bucket names, and the bucket that holds the objects of 'store'
Buckets == {"docs", "media", "logs"}
TheBucket == "docs"

\* the answer of the store when a bucket is made that is there already
BucketAlreadyOwnedByYou == S3Error("BucketAlreadyOwnedByYou")

\* client.bucket_exists(bucket_name)
bucket_exists(bk, bucket, f) ==
    IF f \in Faults THEN [raised |-> f, ret |-> FALSE]
    ELSE [raised |-> NoExc, ret |-> bk[bucket]]

\* client.make_bucket(bucket_name)
make_bucket(bk, bucket, f) ==
    IF f \in Faults THEN [raised |-> f, buckets |-> bk]
    ELSE IF bk[bucket] THEN [raised |-> BucketAlreadyOwnedByYou, buckets |-> bk]
    ELSE [raised |-> NoExc, buckets |-> [bk EXCEPT ![bucket] = TRUE]]

\* a record of one call made to the store client or to the client's constructor
Call(name, arg) == [call |-> name, arg |-> arg]

----------------------------------------------------------------------------
(* The facade functions.  Each returns what its caller sees: the result, the
   error list, the exception it raised (NoExc when it returned), the bucket and
   the temporary folder afterwards, and the calls it made. *)

Outcome(result, errors, raised, st, fs, trace) ==
    [result |-> result, errors |-> errors, raised |-> raised,
     store |-> st, files |-> fs, trace |-> trace]

\* _access(errors, logger): a client, or None with an error appended
_access(errors, env) ==
    IF env.accessOk
    THEN [client |-> TRUE, errors |-> errors, trace |-> <<Call("Minio", <<>>)>>]
    ELSE [client |-> FALSE, errors |-> _s3_except_msg(errors, InvalidEndpoint),
          trace |-> <<Call("Minio", <<>>)>>]

\* client or _access(errors=errors, logger=logger)
ClientOrAccess(client, errors, env) ==
    IF client THEN [client |-> TRUE, errors |-> errors, trace |-> <<>>]
    ELSE _access(errors, env)

\* what _startup leaves: its result, the error list, the buckets, its calls
Started(result, errors, bk, trace) ==
    [result |-> PyBool(result), errors |-> errors, raised |-> NoExc,
     buckets |-> bk, trace |-> trace]

\* (a faulty variant: the bucket is made without asking whether it exists)
_startupAlwaysMakes(errors, bucket, env, makeFault, bk) ==
    LET c == _access(errors, env)
        mk == make_bucket(bk, bucket, makeFault)
        t == Append(c.trace, Call("make_bucket", <<bucket>>))
    IN IF ~c.client THEN Started(FALSE, c.errors, bk, c.trace)
       ELSE IF mk.raised # NoExc
       THEN Started(FALSE, _s3_except_msg(c.errors, mk.raised), bk, t)
       ELSE Started(TRUE, c.errors, mk.buckets, t)

\* _startup(errors, bucket, logger); env.fault is the fault of bucket_exists
_startup(errors, bucket, env, makeFault, bk) ==
    LET c == _access(errors, env)
        ex == bucket_exists(bk, bucket, env.fault)
        mk == make_bucket(bk, bucket, makeFault)
        t1 == Append(c.trace, Call("bucket_exists", <<bucket>>))
        t2 == Append(t1, Call("make_bucket", <<bucket>>))
    IN IF ~c.client THEN Started(FALSE, c.errors, bk, c.trace)
       ELSE IF ex.raised # NoExc
       THEN Started(FALSE, _s3_except_msg(c.errors, ex.raised), bk, t1)
       ELSE IF ex.ret THEN Started(TRUE, c.errors, bk, t1)
       ELSE IF mk.raised # NoExc
       THEN Started(FALSE, _s3_except_msg(c.errors, mk.raised), bk, t2)
       ELSE Started(TRUE, c.errors, mk.buckets, t2)

\* the tags handed to fput_object: None for no tags, else every value unidecoded
DocTags(tags) ==
    IF tags.t = "None" \/ tags.d = EmptyDict THEN PyNone
    ELSE PyDict([k \in DOMAIN tags.d |-> Unidecode(tags.d[k])])

_file_store(errors, basepath, identifier, data, mimetype, tags, client, env, st, fs) ==
    LET c == ClientOrAccess(client, errors, env)
        remotepath == RemotePath(basepath, identifier)
        put == fput_object(st, remotepath, data, mimetype, DocTags(tags), env.fault)
    IN IF ~c.client THEN Outcome(PyBool(FALSE), c.errors, NoExc, st, fs, c.trace)
       ELSE IF put.raised = NoExc
       THEN Outcome(PyBool(TRUE), c.errors, NoExc, put.store, fs,
                    Append(c.trace, Call("fput_object", remotepath)))
       ELSE Outcome(PyBool(FALSE), _s3_except_msg(c.errors, put.raised), NoExc, st, fs,
                    Append(c.trace, Call("fput_object", remotepath)))

_file_retrieve(errors, basepath, identifier, filepath, client, env, st, fs) ==
    LET c == ClientOrAccess(client, errors, env)
        remotepath == RemotePath(basepath, identifier)
        get == fget_object(st, fs, remotepath, filepath, env.fault)
        trace == Append(c.trace, Call("fget_object", remotepath))
    IN IF ~c.client THEN Outcome(PyNone, c.errors, NoExc, st, fs, c.trace)
       ELSE IF get.raised = NoExc
       THEN Outcome(get.ret, c.errors, NoExc, st, get.files, trace)
       ELSE IF Reported(get.raised)
       THEN Outcome(PyNone, _s3_except_msg(c.errors, get.raised), NoExc, st, fs, trace)
       ELSE Outcome(PyNone, c.errors, NoExc, st, fs, trace)

_object_stat(errors, basepath, identifier, client, env, st, fs) ==
    LET c == ClientOrAccess(client, errors, env)
        remotepath == RemotePath(basepath, identifier)
        stat == stat_object(st, remotepath, env.fault)
        trace == Append(c.trace, Call("stat_object", remotepath))
    IN IF ~c.client THEN Outcome(PyNone, c.errors, NoExc, st, fs, c.trace)
       ELSE IF stat.raised = NoExc
       THEN Outcome(stat.ret, c.errors, NoExc, st, fs, trace)
       ELSE IF Reported(stat.raised)
       THEN Outcome(PyNone, _s3_except_msg(c.errors, stat.raised), NoExc, st, fs, trace)
       ELSE Outcome(PyNone, c.errors, NoExc, st, fs, trace)

_objects_list(errors, basepath, recursive, client, env, st, fs) ==
    LET c == ClientOrAccess(client, errors, env)
        lst == list_objects(st, basepath, recursive, env.listFault)
        trace == Append(c.trace, Call("list_objects", basepath))
    IN IF ~c.client THEN Outcome(PyNone, c.errors, NoExc, st, fs, c.trace)
       ELSE IF lst.raised = NoExc
       THEN Outcome(lst.ret, c.errors, NoExc, st, fs, trace)
       ELSE Outcome(PyNone, _s3_except_msg(c.errors, lst.raised), NoExc, st, fs, trace)

\* uuid.uuid4(): a name that no file of the temporary folder has
Uuid4(fs) ==
    CHOOSE n \in 1..(Cardinality(DOMAIN fs) + 1) :
        n \notin DOMAIN fs /\ \A m \in 1..(n - 1) : m \in DOMAIN fs

\* filepath.open("wb") and pickle.dump(obj, f)
WriteFile(fs, filepath, data) ==
    [n \in DOMAIN fs \cup {filepath} |-> IF n = filepath THEN data ELSE fs[n]]

\* filepath.unlink()
Unlink(fs, filepath) == [n \in DOMAIN fs \ {filepath} |-> fs[n]]

_object_exists(errors, basepath, identifier, client, env, st, fs) ==
    LET c == ClientOrAccess(client, errors, env)
    IN IF ~c.client THEN Outcome(PyBool(FALSE), c.errors, NoExc, st, fs, c.trace)
       ELSE IF identifier = NoIdentifier
       THEN LET l == _objects_list(c.errors, basepath, FALSE, TRUE, env, st, fs)
                trace == c.trace \o l.trace
                \* next(objs, None): of None it is a TypeError, and a fault of the
                \* listing is raised by the fetch of the first item
                n == IterNext(l.result, 1)
                \* result = next(objs, None) is None
                result == PyBool(n.done)
            IN IF l.result = PyNone
               THEN Outcome(PyNone, l.errors, TypeError, st, fs, trace)
               ELSE IF n.raised # NoExc
               THEN Outcome(PyNone, l.errors, n.raised, st, fs, trace)
               \* remotepath = Path(basepath) / identifier
               ELSE IF PathJoinRaises(identifier)
               THEN Outcome(PyNone, l.errors, TypeError, st, fs, trace)
               ELSE Outcome(result, l.errors, NoExc, st, fs, trace)
       ELSE LET s == _object_stat(c.errors, basepath, identifier, TRUE, env, st, fs)
            IN Outcome(PyBool(s.result # PyNone), s.errors, NoExc, st, fs,
                       c.trace \o s.trace)

\* (a faulty variant: the temporary file is removed after a failed upload too)
_object_storeAlwaysUnlinks(errors, basepath, identifier, obj, tags, client, env, st, fs) ==
    LET c == ClientOrAccess(client, errors, env)
        filepath == Uuid4(fs)
        fs1 == WriteFile(fs, filepath, Pickle(obj))
        s == _file_store(<<>>, basepath, identifier, fs1[filepath],
                         "application/octet-stream", tags, TRUE, env, st, fs1)
    IN IF ~c.client THEN Outcome(PyBool(FALSE), c.errors, NoExc, st, fs, c.trace)
       ELSE IF s.errors # <<>>
       THEN Outcome(PyBool(FALSE), c.errors \o s.errors, NoExc, s.store,
                    Unlink(fs1, filepath), c.trace \o s.trace)
       ELSE Outcome(PyBool(TRUE), c.errors, NoExc, s.store, Unlink(fs1, filepath),
                    c.trace \o s.trace)

_object_store(errors, basepath, identifier, obj, tags, client, env, st, fs) ==
    LET c == ClientOrAccess(client, errors, env)
        filepath == Uuid4(fs)
        fs1 == WriteFile(fs, filepath, Pickle(obj))
        s == _file_store(<<>>, basepath, identifier, fs1[filepath],
                         "application/octet-stream", tags, TRUE, env, st, fs1)
    IN IF ~c.client THEN Outcome(PyBool(FALSE), c.errors, NoExc, st, fs, c.trace)
       ELSE IF s.errors # <<>>
       THEN Outcome(PyBool(FALSE), c.errors \o s.errors, NoExc, s.store, fs1,
                    c.trace \o s.trace)
       ELSE Outcome(PyBool(TRUE), c.errors, NoExc, s.store, Unlink(fs1, filepath),
                    c.trace \o s.trace)

_object_retrieve(errors, basepath, identifier, client, env, st, fs) ==
    LET c == ClientOrAccess(client, errors, env)
        filepath == Uuid4(fs)
        r == _file_retrieve(c.errors, basepath, identifier, filepath, TRUE, env, st, fs)
        u == Unpickle(r.files[filepath])
        trace == c.trace \o r.trace
    IN IF ~c.client THEN Outcome(PyNone, c.errors, NoExc, st, fs, c.trace)
       ELSE IF r.result = PyNone
       THEN Outcome(PyNone, r.errors, NoExc, st, r.files, trace)
       ELSE IF u.raised # NoExc
       THEN Outcome(PyNone, r.errors, u.raised, st, r.files, trace)
       ELSE Outcome(u.value, r.errors, NoExc, st, Unlink(r.files, filepath), trace)

\* the loop of __folder_delete from the item at position pos on
RECURSIVE FolderLoop(_, _, _, _, _, _, _)
\* (a faulty variant: the loop is left after the first object)
FolderLoopFirstOnly(objs, pos, errors, env, st, fs, trace) ==
    LET n == IterNext(objs, pos)
        name == n.item.object_name
        rm == remove_object(st, name, env.removeFaults[name])
    IN IF n.raised # NoExc THEN Outcome(PyNone, errors, n.raised, st, fs, trace)
       ELSE IF n.done THEN Outcome(PyNone, errors, NoExc, st, fs, trace)
       ELSE Outcome(PyNone,
                    IF rm.raised # NoExc /\ Reported(rm.raised)
                    THEN _s3_except_msg(errors, rm.raised) ELSE errors,
                    NoExc, rm.store, fs, Append(trace, Call("remove_object", name)))
\* (a faulty variant: the first reported error ends the traversal)
FolderLoopHalts(objs, pos, errors, env, st, fs, trace) ==
    LET n == IterNext(objs, pos)
        name == n.item.object_name
        rm == remove_object(st, name, env.removeFaults[name])
    IN IF n.raised # NoExc THEN Outcome(PyNone, errors, n.raised, st, fs, trace)
       ELSE IF n.done THEN Outcome(PyNone, errors, NoExc, st, fs, trace)
       ELSE IF rm.raised # NoExc /\ Reported(rm.raised)
       THEN Outcome(PyNone, _s3_except_msg(errors, rm.raised), NoExc, rm.store, fs,
                    Append(trace, Call("remove_object", name)))
       ELSE FolderLoop(objs, pos + 1, errors, env, rm.store, fs,
                       Append(trace, Call("remove_object", name)))
FolderLoop(objs, pos, errors, env, st, fs, trace) ==
    LET n == IterNext(objs, pos)
        name == n.item.object_name
        rm == remove_object(st, name, env.removeFaults[name])
    IN IF n.raised # NoExc THEN Outcome(PyNone, errors, n.raised, st, fs, trace)
       ELSE IF n.done THEN Outcome(PyNone, errors, NoExc, st, fs, trace)
       ELSE FolderLoop(objs, pos + 1,
                       IF rm.raised # NoExc /\ Reported(rm.raised)
                       THEN _s3_except_msg(errors, rm.raised) ELSE errors,
                       env, rm.store, fs, Append(trace, Call("remove_object", name)))

__folder_delete(errors, basepath, client, env, st, fs) ==
    \* the listing is asked for with no client: _objects_list obtains its own
    LET l == _objects_list(errors, basepath, TRUE, FALSE, env, st, fs)
    IN IF l.result = PyNone THEN Outcome(PyNone, l.errors, NoExc, st, fs, l.trace)
       ELSE FolderLoop(l.result, 1, l.errors, env, st, fs, l.trace)

\* (a faulty variant: not-found counts as a successful delete)
_object_deleteIdempotent(errors, basepath, identifier, client, env, st, fs) ==
    LET c == ClientOrAccess(client, errors, env)
    IN IF ~c.client THEN Outcome(PyBool(FALSE), c.errors, NoExc, st, fs, c.trace)
       ELSE IF identifier = NoIdentifier
       THEN LET d == __folder_delete(c.errors, basepath, TRUE, env, st, fs)
            IN Outcome(IF d.raised = NoExc THEN PyBool(FALSE) ELSE PyNone,
                       d.errors, d.raised, d.store, fs, c.trace \o d.trace)
       ELSE LET remotepath == RemotePath(basepath, identifier)
                rm == remove_object(st, remotepath, env.fault)
                trace == Append(c.trace, Call("remove_object", remotepath))
            IN IF rm.raised = NoExc
               THEN Outcome(PyBool(TRUE), c.errors, NoExc, rm.store, fs, trace)
               ELSE IF Reported(rm.raised)
               THEN Outcome(PyBool(FALSE), _s3_except_msg(c.errors, rm.raised),
                            NoExc, rm.store, fs, trace)
               ELSE Outcome(PyBool(TRUE), c.errors, NoExc, rm.store, fs, trace)

_object_delete(errors, basepath, identifier, client, env, st, fs) ==
    LET c == ClientOrAccess(client, errors, env)
    IN IF ~c.client THEN Outcome(PyBool(FALSE), c.errors, NoExc, st, fs, c.trace)
       ELSE IF identifier = NoIdentifier
       THEN LET d == __folder_delete(c.errors, basepath, TRUE, env, st, fs)
            IN Outcome(IF d.raised = NoExc THEN PyBool(FALSE) ELSE PyNone,
                       d.errors, d.raised, d.store, fs, c.trace \o d.trace)
       ELSE LET remotepath == RemotePath(basepath, identifier)
                rm == remove_object(st, remotepath, env.fault)
                trace == Append(c.trace, Call("remove_object", remotepath))
            IN IF rm.raised = NoExc
               THEN Outcome(PyBool(TRUE), c.errors, NoExc, rm.store, fs, trace)
               ELSE IF Reported(rm.raised)
               THEN Outcome(PyBool(FALSE), _s3_except_msg(c.errors, rm.raised),
                            NoExc, rm.store, fs, trace)
               ELSE Outcome(PyBool(FALSE), c.errors, NoExc, rm.store, fs, trace)

_object_tags_retrieve(errors, basepath, identifier, client, env, st, fs) ==
    LET c == ClientOrAccess(client, errors, env)
        remotepath == RemotePath(basepath, identifier)
        g == get_object_tags(st, remotepath, env.fault)
        trace == Append(c.trace, Call("get_object_tags", remotepath))
    IN IF ~c.client THEN Outcome(PyNone, c.errors, NoExc, st, fs, c.trace)
       ELSE IF g.raised = NoExc
       THEN Outcome(IF g.ret # PyNone /\ DOMAIN g.ret.d # {}
                    THEN PyDict([k \in DOMAIN g.ret.d |-> g.ret.d[k]]) ELSE PyNone,
                    c.errors, NoExc, st, fs, trace)
       ELSE IF Reported(g.raised)
       THEN Outcome(PyNone, _s3_except_msg(c.errors, g.raised), NoExc, st, fs, trace)
       ELSE Outcome(PyNone, c.errors, NoExc, st, fs, trace)

----------------------------------------------------------------------------
(* The calls *)

Idle == [op |-> "idle"]

\* no folder deletion is running step by step
NoDeletion == [pc |-> "idle"]
NotWritten == [t |-> "unset"]

\* the error list the caller hands in.  The facade only ever appends to it and
\* never reads it, so one list stands for all: it holds an earlier message, which
\* tells "left as it was" from "emptied" and from the fresh list of _object_store
ErrorLists == {<<"earlier error">>}

\* the client argument, and whether Minio(...) succeeds when _access is called
ClientModes ==
    { [client |-> TRUE, accessOk |-> TRUE],
      [client |-> FALSE, accessOk |-> TRUE],
      [client |-> FALSE, accessOk |-> FALSE] }

Env(accessOk, fault, listFault, removeFaults) ==
    [accessOk |-> accessOk, fault |-> fault, listFault |-> listFault,
     removeFaults |-> removeFaults]

NoRemoveFaults == [k \in Keys |-> NoExc]

\* the faults of a listing of n items
ListFaults(n) ==
    {NoListFault}
        \cup {[at |-> "call", k |-> 0, exc |-> e] : e \in Faults}
        \cup {[at |-> "iter", k |-> k, exc |-> ConnectionFailed] : k \in 1..(n + 1)}

\* the name of the caller's own file that _file_retrieve downloads to
CallerFile == 0

\* no fault is drawn for a store call that is never made
Called(m, fault) == (~m.client /\ ~m.accessOk) => fault = NoExc

\* The call returns (or raises): the bucket and the temporary folder are as the
\* call left them, and 'last' holds the arguments and what the caller sees.
Return(op, basepath, identifier, obj, tags, m, env, errors, out) ==
    /\ store' = out.store
    /\ files' = Unlink(out.files, CallerFile)
    /\ written' =
          [k \in Keys |->
              IF k = Append(basepath, identifier) /\ out.result = PyBool(TRUE)
                   /\ op \in {"object_store", "file_store"}
              THEN (IF op = "object_store" THEN obj ELSE NotWritten)
              ELSE IF out.store[k] # store[k] THEN NotWritten ELSE written[k]]
    /\ last' =
          [op |-> op, basepath |-> basepath, identifier |-> identifier,
           obj |-> obj, tags |-> tags, client |-> m.client, env |-> env,
           errorsBefore |-> errors, before |-> store, filesBefore |-> files,
           result |-> out.result, errors |-> out.errors, raised |-> out.raised,
           trace |-> out.trace,
           downloaded |-> IF CallerFile \in DOMAIN out.files
                          THEN out.files[CallerFile] ELSE <<>>]
    /\ UNCHANGED <<buckets, deletion>>

\* the temporary folder has room for the file a failing call may leave behind
RoomForTemp == Cardinality(DOMAIN files) < MaxLeaked

FileStore ==
    /\ last = Idle
    /\ \E errors \in ErrorLists, b \in BasePaths, i \in Identifiers, data \in LocalFiles,
       tags \in TagInputs, m \in ClientModes, fault \in {NoExc} \cup Faults :
        /\ Called(m, fault)
        /\ LET env == Env(m.accessOk, fault, NoListFault, NoRemoveFaults)
           IN Return("file_store", b, i, PyNone, tags, m, env, errors,
                     _file_store(errors, b, i, data, "text/plain", tags, m.client,
                                 env, store, files))

FileRetrieve ==
    /\ last = Idle
    /\ \E errors \in ErrorLists, b \in BasePaths, i \in Identifiers,
       m \in ClientModes, fault \in {NoExc} \cup Faults :
        /\ Called(m, fault)
        /\ LET env == Env(m.accessOk, fault, NoListFault, NoRemoveFaults)
           IN Return("file_retrieve", b, i, PyNone, PyNone, m, env, errors,
                     _file_retrieve(errors, b, i, CallerFile, m.client, env, store, files))

ObjectStat ==
    /\ last = Idle
    /\ \E errors \in ErrorLists, b \in BasePaths, i \in Identifiers,
       m \in ClientModes, fault \in {NoExc} \cup Faults :
        /\ Called(m, fault)
        /\ LET env == Env(m.accessOk, fault, NoListFault, NoRemoveFaults)
           IN Return("object_stat", b, i, PyNone, PyNone, m, env, errors,
                     _object_stat(errors, b, i, m.client, env, store, files))

ObjectExists ==
    /\ last = Idle
    /\ \E errors \in ErrorLists, b \in BasePaths, i \in Identifiers \cup {NoIdentifier},
       m \in ClientModes, fault \in {NoExc} \cup Faults,
       lf \in ListFaults(Cardinality(Keys)) :
        /\ Called(m, fault)
        /\ IF i = NoIdentifier
           THEN /\ fault = NoExc
                /\ (~m.client /\ ~m.accessOk) => lf = NoListFault
                /\ lf.k <= Len(ListItems(store, b, FALSE)) + 1
           ELSE lf = NoListFault
        /\ LET env == Env(m.accessOk, fault, lf, NoRemoveFaults)
           IN Return("object_exists", b, i, PyNone, PyNone, m, env, errors,
                     _object_exists(errors, b, i, m.client, env, store, files))

ObjectStore ==
    /\ last = Idle
    /\ \E errors \in ErrorLists, b \in BasePaths, i \in Identifiers, obj \in Values,
       tags \in TagInputs, m \in ClientModes, fault \in {NoExc} \cup Faults :
        /\ RoomForTemp
        /\ Called(m, fault)
        /\ LET env == Env(m.accessOk, fault, NoListFault, NoRemoveFaults)
           IN Return("object_store", b, i, obj, tags, m, env, errors,
                     _object_store(errors, b, i, obj, tags, m.client, env, store, files))

ObjectRetrieve ==
    /\ last = Idle
    /\ \E errors \in ErrorLists, b \in BasePaths, i \in Identifiers,
       m \in ClientModes, fault \in {NoExc} \cup Faults :
        /\ RoomForTemp
        /\ Called(m, fault)
        /\ LET env == Env(m.accessOk, fault, NoListFault, NoRemoveFaults)
           IN Return("object_retrieve", b, i, PyNone, PyNone, m, env, errors,
                     _object_retrieve(errors, b, i, m.client, env, store, files))

\* _object_delete with an identifier
ObjectDelete ==
    /\ last = Idle
    /\ \E errors \in ErrorLists, b \in BasePaths, i \in Identifiers,
       m \in ClientModes, fault \in {NoExc, NoSuchKey} \cup Faults :
        /\ Called(m, fault)
        \* the store answers NoSuchKey only for a name that holds no object
        /\ fault = NoSuchKey => ~store[RemotePath(b, i)].present
        /\ LET env == Env(m.accessOk, fault, NoListFault, NoRemoveFaults)
           IN Return("object_delete", b, i, PyNone, PyNone, m, env, errors,
                     _object_delete(errors, b, i, m.client, env, store, files))

\* _object_delete with no identifier: the folder is removed
FolderDelete ==
    /\ last = Idle
    /\ \E errors \in ErrorLists, b \in BasePaths, client \in BOOLEAN, accessOk \in BOOLEAN,
       lf \in ListFaults(Cardinality(Keys)),
       rf \in [Keys -> {NoExc, NoSuchKey} \cup Faults] :
        /\ lf.k <= Len(ListItems(store, b, TRUE)) + 1
        /\ ~accessOk => lf = NoListFault
        \* a fault is drawn for the objects that are listed only
        /\ \A k \in Keys :
              rf[k] # NoExc =>
                  /\ store[k].present /\ IsPrefix(b, k)
                  /\ accessOk /\ lf.at # "call"
        /\ LET env == Env(accessOk, NoExc, lf, rf)
               m == [client |-> client, accessOk |-> accessOk]
           IN Return("object_delete", b, NoIdentifier, PyNone, PyNone, m, env, errors,
                     _object_delete(errors, b, NoIdentifier, client, env, store, files))

ObjectTagsRetrieve ==
    /\ last = Idle
    /\ \E errors \in ErrorLists, b \in BasePaths, i \in Identifiers,
       m \in ClientModes, fault \in {NoExc} \cup Faults :
        /\ Called(m, fault)
        /\ LET env == Env(m.accessOk, fault, NoListFault, NoRemoveFaults)
           IN Return("object_tags_retrieve", b, i, PyNone, PyNone, m, env, errors,
                     _object_tags_retrieve(errors, b, i, m.client, env, store, files))

ObjectsList ==
    /\ last = Idle
    /\ \E errors \in ErrorLists, b \in BasePaths, recursive \in BOOLEAN,
       m \in ClientModes, lf \in ListFaults(Cardinality(Keys)) :
        /\ (~m.client /\ ~m.accessOk) => lf = NoListFault
        /\ lf.k <= Len(ListItems(store, b, recursive)) + 1
        /\ LET env == Env(m.accessOk, NoExc, lf, NoRemoveFaults)
           IN Return(IF recursive THEN "objects_list_recursive" ELSE "objects_list",
                     b, NoIdentifier, PyNone, PyNone, m, env, errors,
                     _objects_list(errors, b, recursive, m.client, env, store, files))

\* the caller is done with the result and with its error list
Discard ==
    /\ last # Idle
    /\ last' = Idle
    /\ UNCHANGED <<store, files, written, buckets, deletion>>

\* the objects are those of one bucket, which _startup has made ready
Init ==
    /\ store = [k \in Keys |-> Absent]
    /\ files = [n \in {} |-> <<>>]
    /\ written = [k \in Keys |-> NotWritten]
    /\ last = Idle
    /\ buckets = [b \in Buckets |-> b = TheBucket]
    /\ deletion = NoDeletion

Next ==
    \/ FileStore
    \/ FileRetrieve
    \/ ObjectStat
    \/ ObjectExists
    \/ ObjectStore
    \/ ObjectRetrieve
    \/ ObjectDelete
    \/ FolderDelete
    \/ ObjectTagsRetrieve
    \/ ObjectsList
    \/ Discard

Spec == Init /\ [][Next]_vars

----------------------------------------------------------------------------
(* The bootstrap: _startup, called at process start on a store whose buckets
   may or may not exist yet *)

Startup ==
    /\ last = Idle
    /\ \E errors \in ErrorLists, bucket \in Buckets, accessOk \in BOOLEAN,
          existsFault \in {NoExc} \cup Faults, makeFault \in {NoExc} \cup Faults :
        \* no fault is drawn for a call that is never made
        /\ existsFault # NoExc => accessOk
        /\ makeFault # NoExc => (accessOk /\ existsFault = NoExc /\ ~buckets[bucket])
        /\ LET env == Env(accessOk, existsFault, NoListFault, NoRemoveFaults)
               out == _startup(errors, bucket, env, makeFault, buckets)
           IN /\ buckets' = out.buckets
              /\ last' = [op |-> "startup", bucket |-> bucket, client |-> FALSE,
                          env |-> env, makeFault |-> makeFault,
                          errorsBefore |-> errors, bucketsBefore |-> buckets,
                          result |-> out.result, errors |-> out.errors,
                          raised |-> out.raised, trace |-> out.trace]
              /\ UNCHANGED <<store, files, written, deletion>>

InitStartup ==
    /\ store = [k \in Keys |-> Absent]
    /\ files = [n \in {} |-> <<>>]
    /\ written = [k \in Keys |-> NotWritten]
    /\ last = Idle
    /\ buckets \in [Buckets -> BOOLEAN]
    /\ deletion = NoDeletion

NextStartup ==
    \/ Startup
    \/ Discard

SpecStartup == InitStartup /\ [][NextStartup]_vars

----------------------------------------------------------------------------
(* What the claims speak of *)

\* the object name the last call was about
LastKey == RemotePath(last.basepath, last.identifier)

IsFolderDelete == last.op = "object_delete" /\ last.identifier = NoIdentifier
IsObjectDelete == last.op = "object_delete" /\ last.identifier # NoIdentifier
IsFolderExists == last.op = "object_exists" /\ last.identifier = NoIdentifier

\* the call had a client: the one it was given or the one _access built
ClientObtained == last.client \/ last.env.accessOk

\* the entries the call appended to its caller's error list
Appended == SubSeq(last.errors, Len(last.errorsBefore) + 1, Len(last.errors))
ErrorsKept == SubSeq(last.errors, 1, Len(last.errorsBefore)) = last.errorsBefore
NothingAppended == last.errors = last.errorsBefore

\* the names the call asked the store to remove, in order
RECURSIVE RemovedNames(_)
RemovedNames(trace) ==
    IF trace = <<>> THEN <<>>
    ELSE (IF Head(trace).call = "remove_object" THEN <<Head(trace).arg>> ELSE <<>>)
         \o RemovedNames(Tail(trace))

\* the messages for the names whose removal raised something other than not-found
RECURSIVE FailureMessages(_, _)
FailureMessages(names, rf) ==
    IF names = <<>> THEN <<>>
    ELSE (IF rf[Head(names)] \in Faults THEN <<ErrMsg(rf[Head(names)])>> ELSE <<>>)
         \o FailureMessages(Tail(names), rf)

\* the store client raised a fault (not-found apart) during the call
FaultInjected ==
    \/ last.env.fault \in Faults
    \/ last.env.listFault # NoListFault
    \/ \E k \in Keys : last.env.removeFaults[k] \in Faults

\* C1: Exists with the identifier omitted returns true iff the non-recursive
\* listing of the prefix yields at least one descriptor (false for an empty
\* prefix), whenever the listing itself goes through.
C1_FolderExistsIffListed ==
    (IsFolderExists /\ ClientObtained /\ last.env.listFault = NoListFault)
        => /\ last.raised = NoExc
           /\ last.result = PyBool(ListItems(last.before, last.basepath, FALSE) # <<>>)

\* C2: not-found is not an error.  When no object is stored at the path and the
\* store raises nothing but not-found, file retrieve, stat and single-object
\* delete leave the error list exactly as it was, and retrieve and stat return
\* an absent result.
C2_NotFoundIsNotAnError ==
    (/\ last.op \in {"file_retrieve", "object_stat", "object_delete"}
     /\ last.identifier # NoIdentifier
     /\ ~last.before[LastKey].present
     /\ ClientObtained
     /\ last.env.fault \notin Faults)
        => /\ last.raised = NoExc
           /\ NothingAppended
           /\ last.op # "object_delete" => last.result = PyNone

\* C2 witness: a delete of a path that holds nothing, answered with NoSuchKey
C2_Witness ==
    /\ IsObjectDelete
    /\ ~last.before[LastKey].present
    /\ last.env.fault = NoSuchKey
    /\ NothingAppended

\* C3: the round trip of the Tagged Value Store.  While the object that a
\* successful _object_store of V put at P has not been overwritten or removed,
\* an _object_retrieve at P whose download does not fail returns V and appends
\* nothing to the error list.
C3_RoundTrip ==
    (/\ last.op = "object_retrieve"
     /\ written[LastKey] # NotWritten
     /\ ClientObtained
     /\ last.env.fault = NoExc)
        => /\ last.raised = NoExc
           /\ last.result = written[LastKey]
           /\ NothingAppended

\* C3 witness: the integer 1 comes back
C3_Witness ==
    /\ last.op = "object_retrieve"
    /\ written[LastKey] = PyInt(1)
    /\ last.result = PyInt(1)
    /\ NothingAppended

\* C4: Folder Deletion is complete.  With no deleter at work beside it and no
\* call failing, it issues one remove per object under the prefix (N removes
\* for N objects, at any depth) and leaves no object under the prefix.
C4_FolderDeleteComplete ==
    (/\ IsFolderDelete
     /\ ClientObtained /\ last.env.accessOk
     /\ ~FaultInjected
     /\ \A k \in Keys : last.env.removeFaults[k] = NoExc)
        => /\ last.raised = NoExc
           /\ RemovedNames(last.trace) = KeysUnder(last.before, last.basepath, 1)
           /\ \A k \in Keys : IsPrefix(last.basepath, k) => ~store[k].present
           /\ \A k \in Keys : ~IsPrefix(last.basepath, k) => store[k] = last.before[k]

\* C4 witness: a folder with two objects, one of them a level deeper, is emptied
C4_Witness ==
    /\ IsFolderDelete
    /\ ~FaultInjected
    /\ Len(KeysUnder(last.before, last.basepath, 1)) = 2
    /\ Len(RemovedNames(last.trace)) = 2
    /\ last.before[<<"c", "x">>].present
    /\ \A k \in Keys : store[k].present <=> k = <<"c", "x">>

\* C5: Folder Deletion is best-effort.  Once the listing is obtained and is
\* iterated to its end, a remove is issued for every listed object, whatever
\* the removes before it raised, and the entries appended to the error list
\* are, in order, those of the objects whose remove raised something other
\* than not-found: none for a success, none for not-found.
C5_FolderDeleteBestEffort ==
    (/\ IsFolderDelete
     /\ ClientObtained /\ last.env.accessOk
     /\ last.env.listFault = NoListFault)
        => LET listed == KeysUnder(last.before, last.basepath, 1)
           IN /\ last.raised = NoExc
              /\ RemovedNames(last.trace) = listed
              /\ ErrorsKept
              /\ Appended = FailureMessages(listed, last.env.removeFaults)

\* C5 witness: the first of two removes fails for want of permission, the second
\* is still issued and succeeds, and there is one new entry in the error list
C5_Witness ==
    /\ IsFolderDelete
    /\ last.basepath = <<"a">>
    /\ last.env.removeFaults[<<"a", "b", "x">>] = AccessDenied
    /\ last.env.removeFaults[<<"a", "x">>] = NoExc
    /\ RemovedNames(last.trace) = << <<"a", "b", "x">>, <<"a", "x">> >>
    /\ Appended = <<ErrMsg(AccessDenied)>>
    /\ store[<<"a", "b", "x">>].present /\ ~store[<<"a", "x">>].present

\* C6, as claimed: Delete with an identifier returns true whenever no exception
\* other than not-found occurred, also when nothing was ever stored at the path.
C6_DeleteTrueUnlessOtherException ==
    (IsObjectDelete /\ ClientObtained /\ last.env.fault \notin Faults)
        => last.result = PyBool(TRUE)

\* C6, amended: Delete with an identifier returns true exactly when the remove
\* call raised no exception at all, also for a path that holds nothing; when the
\* store answers not-found it returns false and appends nothing.
C6_DeleteTrueIffNoException ==
    IsObjectDelete
        => /\ last.raised = NoExc
           /\ last.result = PyBool(ClientObtained /\ last.env.fault = NoExc)
           /\ (ClientObtained /\ last.env.fault = NoSuchKey) => NothingAppended

\* C6 witness: the store answers not-found and the delete returns false
C6_Witness ==
    /\ IsObjectDelete
    /\ ClientObtained
    /\ last.env.fault = NoSuchKey
    /\ last.result = PyBool(FALSE)
    /\ NothingAppended

\* C7: no fault is re-raised.  Whatever fault the store client raises, at a call
\* or while a listing is iterated, the operation returns normally and the fault
\* is an entry appended to the error list.
C7_NoFaultReRaised ==
    (last # Idle /\ ClientObtained /\ FaultInjected)
        => /\ last.raised = NoExc
           /\ ErrorsKept
           /\ Len(Appended) >= 1

\* C8: Delete with the identifier omitted returns True when the objects under
\* the prefix were deleted with no error appended, and False otherwise.
C8_FolderDeleteReturnsSuccess ==
    IsFolderDelete
        => /\ last.raised = NoExc
           /\ last.result = PyBool(NothingAppended)

\* the temporary file of the last _object_store
LastTempFile == Uuid4(last.filesBefore)

\* C9: the temporary file of the Tagged Value Store's Put.  After _object_store
\* returns with a client, its temporary file is gone iff the upload succeeded,
\* it returns true in exactly that case, and after a failed upload the file is
\* still there, the result is false and the upload's error is in the caller's
\* error list.
C9_TempFileDiscipline ==
    (last.op = "object_store" /\ ClientObtained)
        => LET uploaded == last.env.fault = NoExc
           IN /\ last.raised = NoExc
              /\ last.result = PyBool(uploaded)
              /\ LastTempFile \notin DOMAIN files <=> uploaded
              /\ ErrorsKept
              /\ IF uploaded THEN Appended = <<>>
                 ELSE /\ Appended = <<ErrMsg(last.env.fault)>>
                      /\ files[LastTempFile] = Pickle(last.obj)
                      /\ store = last.before

\* C9 witness: a failed upload has left the pickle of 1 behind
C9_Witness ==
    /\ last.op = "object_store"
    /\ last.env.fault = ConnectionFailed
    /\ last.result = PyBool(FALSE)
    /\ LastTempFile \in DOMAIN files
    /\ files[LastTempFile] = <<128, 4, 75, 1, 46>>

\* what the specification says a tag value becomes: "Jos\'e" is stored as
\* "Jose", the sharp s as "ss", an ASCII value as it is
Stripped(value) ==
    CASE value = JoseAcute -> Jose
      [] value = Eszett -> DoubleS
      [] OTHER -> value

\* C10: tag normalization.  After a Put with a non-empty tag map T the object's
\* tags have T's keys and the stripped form of T's values; no stored tag value
\* holds a diacritic, and a Tags retrieval that does not fail returns the tags
\* as they are stored.
C10_TagsNormalized ==
    /\ (/\ last.op \in {"file_store", "object_store"}
        /\ last.result = PyBool(TRUE)
        /\ last.tags # PyNone
        /\ last.tags.d # EmptyDict)
           => /\ DOMAIN store[LastKey].tags = DOMAIN last.tags.d
              /\ \A k \in DOMAIN last.tags.d :
                    store[LastKey].tags[k] = Stripped(last.tags.d[k])
    /\ \A key \in Keys :
          store[key].present =>
              \A k \in DOMAIN store[key].tags : ~HasDiacritics(store[key].tags[k])
    /\ (/\ last.op = "object_tags_retrieve"
        /\ ClientObtained
        /\ last.env.fault = NoExc
        /\ store[LastKey].present
        /\ store[LastKey].tags # EmptyDict)
           => /\ last.raised = NoExc
              /\ last.result = PyDict(store[LastKey].tags)
              /\ NothingAppended

\* C10 witness: tags that were put with diacritics are retrieved without them
C10_Witness ==
    /\ last.op = "object_tags_retrieve"
    /\ last.result = PyDict([k \in {"author", "city"} |->
                                IF k = "author" THEN Jose ELSE DoubleS])

----------------------------------------------------------------------------
(* The folder deletion beside another process that removes objects under the
   same prefix.  __folder_delete runs one store call at a time: the listing,
   then one remove_object for each listed object, then the end of the loop;
   the other process may remove any object of the prefix between two steps.
   Nobody adds objects, and the store raises nothing but not-found. *)

\* an object as file_store leaves it
PlainObject == StoredObject(RawFile, "text/plain", EmptyDict)

\* the answers of remove_object: a key that holds no object is answered with
\* success or with NoSuchKey, a key that holds one with success
RemoveAnswers(st, key) == IF st[key].present THEN {NoExc} ELSE {NoExc, NoSuchKey}

\* __folder_delete(errors, bucket, basepath, client) is called
RaceCall ==
    /\ deletion.pc = "idle"
    /\ \E errors \in ErrorLists, b \in BasePaths, accessOk \in BOOLEAN :
          deletion' = [pc |-> "list", basepath |-> b, accessOk |-> accessOk,
                       errorsBefore |-> errors, errors |-> errors,
                       objs |-> PyNone, pos |-> 0, answers |-> <<>>,
                       others |-> {}, trace |-> <<>>]
    /\ UNCHANGED <<store, files, written, last, buckets>>

\* objs = _objects_list(errors, bucket, basepath, recursive=True), 'if objs:'
RaceList ==
    /\ deletion.pc = "list"
    /\ LET env == Env(deletion.accessOk, NoExc, NoListFault, NoRemoveFaults)
           l == _objects_list(deletion.errors, deletion.basepath, TRUE, FALSE,
                              env, store, files)
       IN deletion' = [deletion EXCEPT
                          !.pc = IF l.result = PyNone THEN "done" ELSE "loop",
                          !.errors = l.errors,
                          !.objs = l.result,
                          !.pos = 1,
                          !.trace = l.trace]
    /\ UNCHANGED <<store, files, written, last, buckets>>

\* one turn of 'for obj in objs': client.remove_object and its handler
RaceRemove ==
    /\ deletion.pc = "loop"
    /\ ~IterNext(deletion.objs, deletion.pos).done
    /\ LET obj == IterNext(deletion.objs, deletion.pos).item
           name == obj.object_name
       IN \E answer \in RemoveAnswers(store, name) :
            LET env == Env(deletion.accessOk, NoExc, NoListFault,
                           [NoRemoveFaults EXCEPT ![name] = answer])
                out == FolderLoop(PyIter(<<obj>>, 0, NoExc), 1, deletion.errors,
                                  env, store, files, deletion.trace)
            IN /\ store' = out.store
               /\ deletion' = [deletion EXCEPT
                                  !.pos = @ + 1,
                                  !.errors = out.errors,
                                  !.answers = Append(@, answer),
                                  !.trace = out.trace]
    /\ UNCHANGED <<files, written, last, buckets>>

\* the iterator is exhausted: __folder_delete returns
RaceFinish ==
    /\ deletion.pc = "loop"
    /\ IterNext(deletion.objs, deletion.pos).done
    /\ deletion' = [deletion EXCEPT !.pc = "done"]
    /\ UNCHANGED <<store, files, written, last, buckets>>

\* the other process removes an object of the prefix
OtherDelete ==
    /\ deletion.pc \in {"list", "loop"}
    /\ \E k \in Keys :
        /\ IsPrefix(deletion.basepath, k)
        /\ store[k].present
        /\ store' = [store EXCEPT ![k] = Absent]
        /\ deletion' = [deletion EXCEPT !.others = @ \cup {k}]
    /\ UNCHANGED <<files, written, last, buckets>>

InitRace ==
    /\ store \in [Keys -> {Absent, PlainObject}]
    /\ files = [n \in {} |-> <<>>]
    /\ written = [k \in Keys |-> NotWritten]
    /\ last = Idle
    /\ buckets = [b \in Buckets |-> b = TheBucket]
    /\ deletion = NoDeletion

Deleter ==
    \/ RaceCall
    \/ RaceList
    \/ RaceRemove
    \/ RaceFinish

NextRace ==
    \/ Deleter
    \/ OtherDelete

\* the deleter is a blocking, single-threaded loop: its next store call is
\* always made once the one before has returned
SpecRace == InitRace /\ [][NextRace]_vars /\ WF_vars(RaceList \/ RaceRemove \/ RaceFinish)

\* the calls of the last call to the store client, by name
CallsOf(name) == {i \in 1..Len(last.trace) : last.trace[i].call = name}

\* C11: the bootstrap.  make_bucket is called only after bucket_exists has
\* answered that the bucket is absent; whenever _startup returns true the bucket
\* exists at the store; and when the client's construction, the existence check
\* or the creation fails, it returns false with one error appended.
C11_Bootstrap ==
    last.op = "startup"
        => /\ last.raised = NoExc
           /\ ErrorsKept
           /\ CallsOf("make_bucket") # {}
                 => /\ last.env.accessOk /\ last.env.fault = NoExc
                    /\ ~last.bucketsBefore[last.bucket]
                    /\ \E i \in CallsOf("bucket_exists") :
                          \A j \in CallsOf("make_bucket") : i < j
           /\ last.result = PyBool(TRUE) => buckets[last.bucket]
           /\ (\/ ~last.env.accessOk
               \/ last.env.fault \in Faults
               \/ last.makeFault \in Faults)
                 => /\ last.result = PyBool(FALSE)
                    /\ Len(Appended) = 1
                    /\ buckets = last.bucketsBefore
           /\ (last.env.accessOk /\ last.env.fault = NoExc /\ last.makeFault = NoExc)
                 => /\ last.result = PyBool(TRUE)
                    /\ Appended = <<>>

\* C11 witness: a bucket that was absent has been made and _startup returns true
C11_Witness ==
    /\ last.op = "startup"
    /\ ~last.bucketsBefore[last.bucket]
    /\ buckets[last.bucket]
    /\ last.result = PyBool(TRUE)
    /\ CallsOf("make_bucket") # {}

\* C12: handle reuse.  A call that is given a client performs all its store
\* calls through it and never calls _access, the function that builds a client.
C12_HandleReuse ==
    (last # Idle /\ last.client) => CallsOf("Minio") = {}

\* the names of the listing the running folder deletion obtained
Listed ==
    IF deletion.pc \in {"loop", "done"} /\ deletion.objs # PyNone
    THEN {deletion.objs.items[i].object_name : i \in 1..Len(deletion.objs.items)}
    ELSE {}

\* what the running folder deletion has appended to its caller's error list
RaceAppended ==
    SubSeq(deletion.errors, Len(deletion.errorsBefore) + 1, Len(deletion.errors))

\* the folder deletion never appends an error for a removal; the one entry it
\* may append is that of a client that could not be built for the listing
RaceNoErrorForRemoved ==
    deletion.pc # "idle"
        => /\ SubSeq(deletion.errors, 1, Len(deletion.errorsBefore)) = deletion.errorsBefore
           /\ deletion.accessOk => RaceAppended = <<>>
           /\ ~deletion.accessOk => (Len(RaceAppended) <= 1 /\ Listed = {})

\* when the folder deletion has finished, nothing of its listing remains, and
\* it has asked for one removal per listed object
RaceNothingListedRemains ==
    deletion.pc = "done"
        => /\ \A k \in Listed : ~store[k].present
           /\ Len(deletion.answers) = Cardinality(Listed)

\* C13: a folder deletion racing a concurrent deleter of the same prefix, nobody
\* adding objects: under every interleaving the folder deletion terminates, it
\* appends nothing to the error list for the objects the other process removed
\* first, and when it has finished no object of its listing remains.
C13_RaceWithDeleter ==
    /\ [](RaceNoErrorForRemoved /\ RaceNothingListedRemains)
    /\ (deletion.pc = "list") ~> (deletion.pc = "done")

\* C13 witness: the folder deletion has finished after the other process removed
\* a listed object first and the store answered that removal with NoSuchKey
C13_Witness ==
    /\ deletion.pc = "done"
    /\ Cardinality(Listed) >= 2
    /\ \E i \in 1..Len(deletion.answers) :
          /\ deletion.objs.items[i].object_name \in deletion.others
          /\ deletion.answers[i] = NoSuchKey
    /\ \E i \in 1..Len(deletion.answers) :
          deletion.objs.items[i].object_name \notin deletion.others

====
